---- MODULE Spec2Model ----
(***************************************************************************)
(* The training / validation / early-stopping / test control loop of       *)
(* ex3_convnet.py (lines 317-414), as a state machine.                     *)
(*                                                                         *)
(* Abstractions:                                                           *)
(*   - the model's parameters are identified by a version number: the      *)
(*     number of optimizer steps this run has applied to them; the         *)
(*     parameters found in a file left by an earlier run are Stale;        *)
(*   - a loss value is identified by the <<epoch, batch>> that produced    *)
(*     it;                                                                 *)
(*   - floating point numbers (accuracies, learning rates) are exact       *)
(*     rationals <<numerator, denominator>>;                               *)
(*   - each validation / test batch is classified either all wrong or all  *)
(*     right, and only the leading batches of a pass can be right; the     *)
(*     accuracies so produced include zero and ties between epochs;        *)
(*   - every delegated call (forward, backward, step, torch.save)          *)
(*     succeeds; torch.load raises when the file does not exist.           *)
(***************************************************************************)
EXTENDS Integers, Sequences, FiniteSets, TLC

\* ------------------------------------------------------------------ bounds
MaxEpochs == 2          \* --epoch ranges over 0..MaxEpochs
TrainBatches == 2       \* len(train_loader), scaled down from 245
MaxParamGroups == 2     \* SpecGroups: param_groups has 1..MaxParamGroups entries
MaxRightBatches == 2    \* only a pass's first MaxRightBatches batches may be
                        \* classified right; the later ones are all wrong

\* ------------------------------------------------------- program constants
default_batch_size == 200
num_validation == 1000
TestCutoff == 1000
learning_rate == <<2, 1000>>
learning_rate_decay == <<95, 100>>
initial_best_validation_acc == <<0, 1>>

\* batch sizes and test-set sizes (in examples) the configuration draws from
BatchSizes == {default_batch_size, 400}
TestSizes == {800, 1400}

\* a file is <<>> when absent and <<p>> when it holds the parameters p
NoFile == <<>>
File(p) == <<p>>

\* parameters: who produced them and after how many optimizer steps
OwnParams(steps) == [by |-> "self", steps |-> steps]
Stale == [by |-> "prior", steps |-> 0]
OtherParams(steps) == [by |-> "other", steps |-> steps]

\* the second run: absent, or at the start of the same script with the same
\* epoch count and early stopping on
NoOtherRun ==
    [pc |-> "absent", epoch |-> 0, best |-> <<0, 1>>, params |-> OtherParams(0)]
OtherRunStart ==
    [pc |-> "loop", epoch |-> 0, best |-> <<0, 1>>, params |-> OtherParams(0)]

VARIABLES
    num_epochs,             \* args.epoch
    e_stop,                 \* args.e_stop
    batch_size,             \* batch_size
    test_size,              \* len(test_dataset)
    prior_files,            \* TRUE when an earlier run left its files behind
    other,                  \* a second run of the script in the same directory
    pc,                     \* position in the script
    epoch,                  \* the epoch loop's index
    i,                      \* the training loop's batch index
    params,                 \* model.state_dict(): version of the parameters
    training,               \* model.training
    lr,                     \* lr
    param_groups,           \* optimizer.param_groups[g]['lr']
    loss,                   \* loss
    correct,                \* correct
    total,                  \* total
    consumed,               \* examples the current val/test loader has yielded
    best_validation_acc,    \* best_validation_acc
    fs,                     \* the three checkpoint files
    wandb_log,              \* records passed to wandb.log
    summary,                \* values assigned to wandb.run.summary
    trace                   \* history: one event per step taken

vars == <<num_epochs, e_stop, batch_size, test_size, prior_files, other, pc,
          epoch, i,
          params, training, lr, param_groups, loss, correct, total, consumed,
          best_validation_acc, fs, wandb_log, summary, trace>>

cfg == <<num_epochs, e_stop, batch_size, test_size, prior_files, other>>

\* ---------------------------------------------------------------- helpers
Min(a, b) == IF a < b THEN a ELSE b

\* rationals <<n, d>> with d > 0
RatGt(a, b) == a[1] * b[2] > b[1] * a[2]
RatMul(a, b) == <<a[1] * b[1], a[2] * b[2]>>

RECURSIVE RatPow(_, _)
RatPow(r, n) == IF n = 0 THEN <<1, 1>> ELSE RatMul(RatPow(r, n - 1), r)

\* len(train_loader)
total_step == TrainBatches

\* labels.size(0) of the next batch of a loader over `size` examples
BatchLen(size) == Min(batch_size, size - consumed)

\* (predicted == labels).sum() of a batch of n examples: none or all of them
Hits(n) == IF consumed \div batch_size < MaxRightBatches THEN {0, n} ELSE {0}

\* a history event: the step taken, the epoch and mode it was taken in, and
\* the parameters (p), count (n), ratio (acc) or outcome (flag) it involved
Event(op, p, n, acc, flag) ==
    [op |-> op, epoch |-> epoch, mode |-> training, p |-> p, n |-> n,
     acc |-> acc, flag |-> flag]

Log(op, p, n, acc, flag) ==
    trace' = Append(trace, Event(op, p, n, acc, flag))

\* ------------------------------------------------------------------- Init
InitialFile == IF prior_files THEN File(Stale) ELSE NoFile

\* the state before the epoch loop, for a configuration drawn from the given
\* batch sizes, test-set sizes, earlier-run flags, parameter-group counts and
\* second runs
InitWith(sizes, tests, priors, groups, others) ==
    /\ num_epochs \in 0..MaxEpochs
    /\ e_stop \in BOOLEAN
    /\ batch_size \in sizes
    /\ test_size \in tests
    /\ prior_files \in priors
    /\ other \in others
    /\ pc = IF num_epochs > 0 THEN "train" ELSE "eval_test"
    /\ epoch = 0
    /\ i = 0
    /\ params = OwnParams(0)
    /\ training = TRUE
    /\ lr = learning_rate
    /\ \E g \in groups : param_groups = [x \in 1..g |-> learning_rate]
    /\ loss = <<0, 0>>
    /\ correct = 0
    /\ total = 0
    /\ consumed = 0
    /\ best_validation_acc = initial_best_validation_acc
    /\ fs = [early |-> InitialFile, after |-> InitialFile, ckpt |-> InitialFile]
    /\ wandb_log = <<>>
    /\ summary = <<>>
    /\ trace = <<>>

\* line 311: Adam(model.parameters(), ...) makes a single parameter group
Init == InitWith(BatchSizes, TestSizes, BOOLEAN, {1}, {NoOtherRun})

\* the same run with an optimizer of 1..MaxParamGroups parameter groups, at the
\* configured batch size
InitGroups ==
    InitWith({default_batch_size}, TestSizes, BOOLEAN, 1..MaxParamGroups,
             {NoOtherRun})

\* ---------------------------------------------------------------- actions
\* lines 321-338: one training batch
TrainBatch ==
    /\ pc = "train"
    /\ loss' = <<epoch, i>>
    /\ params' = OwnParams(params.steps + 1)
    /\ Log("train", OwnParams(params.steps + 1), 0, <<0, 1>>, FALSE)
    /\ IF i + 1 < total_step
          THEN i' = i + 1 /\ pc' = "train"
          ELSE i' = 0 /\ pc' = "decay"
    /\ UNCHANGED <<cfg, epoch, training, lr, param_groups, correct, total,
                   consumed, best_validation_acc, fs, wandb_log, summary>>

\* defect variant for C9: only the first group receives the new rate
update_lr_FirstGroupOnly(groups, new_lr) == [groups EXCEPT ![1] = new_lr]

\* lines 20-22: update_lr sets every parameter group's rate
update_lr(groups, new_lr) == [g \in DOMAIN groups |-> new_lr]

\* line 341: lr *= learning_rate_decay
DecayedLr == RatMul(lr, learning_rate_decay)

\* lines 340-342: decay the learning rate after the epoch's training batches
UpdateLr ==
    /\ pc = "decay"
    /\ lr' = DecayedLr
    /\ param_groups' = update_lr(param_groups, DecayedLr)
    /\ pc' = "eval"
    /\ Log("decay", params, 0, DecayedLr, FALSE)
    /\ UNCHANGED <<cfg, epoch, i, params, training, loss, correct, total,
                   consumed, best_validation_acc, fs, wandb_log, summary>>

\* lines 345-346 and 394-395: the counters a pass starts from
ResetCounter == 0

\* lines 343-346: model.eval() and the counters' reset
BeginValidation ==
    /\ pc = "eval"
    /\ training' = FALSE
    /\ correct' = ResetCounter
    /\ total' = ResetCounter
    /\ consumed' = 0
    /\ pc' = "val"
    /\ Log("eval", params, 0, <<0, 1>>, FALSE)
    /\ UNCHANGED <<cfg, epoch, i, params, lr, param_groups, loss,
                   best_validation_acc, fs, wandb_log, summary>>

\* lines 347-353: one validation batch
ValBatch ==
    /\ pc = "val"
    /\ LET n == BatchLen(num_validation) IN
        /\ total' = total + n
        /\ \E hit \in Hits(n) : correct' = correct + hit
        /\ consumed' = consumed + n
        /\ pc' = IF consumed + n < num_validation THEN "val" ELSE "ckpt"
        /\ Log("val", params, n, <<0, 1>>, FALSE)
    /\ UNCHANGED <<cfg, epoch, i, params, training, lr, param_groups, loss,
                   best_validation_acc, fs, wandb_log, summary>>

\* line 363: current_epoch_val_acc = correct / total
current_epoch_val_acc == <<correct, total>>

\* defect variant for C11: a tie with the best accuracy also updates
IsNewBest_TieUpdates ==
    e_stop /\ ~RatGt(best_validation_acc, <<correct, total>>)

\* defect variant for C3: the accuracy test without the e_stop flag
IsNewBest_IgnoresFlag == RatGt(<<correct, total>>, best_validation_acc)

\* lines 362-364: the early-stopping test
IsNewBest == e_stop /\ RatGt(current_epoch_val_acc, best_validation_acc)

\* lines 355-368: the checkpoint decision
CheckpointDecision ==
    /\ pc = "ckpt"
    /\ IF IsNewBest
          THEN /\ best_validation_acc' = current_epoch_val_acc
               /\ fs' = [fs EXCEPT !.early = File(params)]
          ELSE UNCHANGED <<best_validation_acc, fs>>
    /\ pc' = "log"
    /\ Log("ckpt", params, 0, current_epoch_val_acc, IsNewBest)
    /\ UNCHANGED <<cfg, epoch, i, params, training, lr, param_groups, loss,
                   correct, total, consumed, wandb_log, summary>>

\* lines 371 and 407: 100 * correct / total
Percent == <<100 * correct, total>>

\* defect variant for C8: the record carries the 1-based epoch of line 337
MetricRecord_OneBasedEpoch ==
    [Epoch |-> epoch + 1, TrainLoss |-> loss, ValidAcc |-> Percent]

\* lines 372-375: the record passed to wandb.log
MetricRecord == [Epoch |-> epoch, TrainLoss |-> loss, ValidAcc |-> Percent]

\* lines 370-375: wandb.log
LogMetrics ==
    /\ pc = "log"
    /\ wandb_log' = Append(wandb_log, MetricRecord)
    /\ pc' = "train_mode"
    /\ Log("log", params, 0, Percent, FALSE)
    /\ UNCHANGED <<cfg, epoch, i, params, training, lr, param_groups, loss,
                   correct, total, consumed, best_validation_acc, fs, summary>>

\* defect variant for C10: the model is left in evaluation mode
ModeAfterEpoch_StaysEval == FALSE

\* line 378: model.train()
ModeAfterEpoch == TRUE

\* defect variant for C5: the loop runs one epoch too many
LoopContinues_OneTooMany == epoch + 1 <= num_epochs

\* line 320: range(num_epochs) has another index after this one
LoopContinues == epoch + 1 < num_epochs

\* line 378, and the epoch loop's step (line 320)
ModelTrain ==
    /\ pc = "train_mode"
    /\ training' = ModeAfterEpoch
    /\ epoch' = epoch + 1
    /\ pc' = IF LoopContinues THEN "train" ELSE "eval_test"
    /\ Log("train_mode", params, 0, <<0, 1>>, FALSE)
    /\ UNCHANGED <<cfg, i, params, lr, param_groups, loss, correct, total,
                   consumed, best_validation_acc, fs, wandb_log, summary>>

\* line 382: model.eval() before the test pass
ModelEvalForTest ==
    /\ pc = "eval_test"
    /\ training' = FALSE
    /\ pc' = "post"
    /\ Log("eval_test", params, 0, <<0, 1>>, FALSE)
    /\ UNCHANGED <<cfg, epoch, i, params, lr, param_groups, loss, correct,
                   total, consumed, best_validation_acc, fs, wandb_log, summary>>

\* defect variant for C7: the post-training block ignores the flag
PostTrainingEnabled_Always == TRUE

\* line 388: the post-training block runs only with early stopping
PostTrainingEnabled == e_stop

\* lines 388-389: save the post-training parameters
SaveAfterTraining ==
    /\ pc = "post"
    /\ IF PostTrainingEnabled
          THEN /\ fs' = [fs EXCEPT !.after = File(params)]
               /\ pc' = "reload"
               /\ Log("save_after", params, 0, <<0, 1>>, TRUE)
          ELSE /\ fs' = fs
               /\ pc' = "test_begin"
               /\ Log("skip_post", params, 0, <<0, 1>>, FALSE)
    /\ UNCHANGED <<cfg, epoch, i, params, training, lr, param_groups, loss,
                   correct, total, consumed, best_validation_acc, wandb_log,
                   summary>>

\* line 391: load the early-stopping file; torch.load raises when it is absent
LoadBest ==
    /\ pc = "reload"
    /\ IF fs.early = NoFile
          THEN /\ pc' = "aborted"
               /\ params' = params
               /\ Log("load_failed", params, 0, <<0, 1>>, FALSE)
          ELSE /\ pc' = "test_begin"
               /\ params' = fs.early[1]
               /\ Log("load", fs.early[1], 0, <<0, 1>>, TRUE)
    /\ UNCHANGED <<cfg, epoch, i, training, lr, param_groups, loss, correct,
                   total, consumed, best_validation_acc, fs, wandb_log, summary>>

\* lines 393-395: the test pass's counters
BeginTest ==
    /\ pc = "test_begin"
    /\ correct' = ResetCounter
    /\ total' = ResetCounter
    /\ consumed' = 0
    /\ pc' = "test"
    /\ Log("test_begin", params, 0, <<0, 1>>, FALSE)
    /\ UNCHANGED <<cfg, epoch, i, params, training, lr, param_groups, loss,
                   best_validation_acc, fs, wandb_log, summary>>

\* defect variant for C4: the cutoff compares against the wrong total
CutoffReached_OffByOne(t) == t = TestCutoff + 1

\* line 403: if total == 1000: break
CutoffReached(t) == t = TestCutoff

\* lines 396-404: one test batch
TestBatch ==
    /\ pc = "test"
    /\ LET n == BatchLen(test_size) IN
        /\ total' = total + n
        /\ \E hit \in Hits(n) : correct' = correct + hit
        /\ consumed' = consumed + n
        /\ pc' = IF CutoffReached(total + n) \/ consumed + n >= test_size
                    THEN "report" ELSE "test"
        /\ Log("test", params, total + n, <<0, 1>>, CutoffReached(total + n))
    /\ UNCHANGED <<cfg, epoch, i, params, training, lr, param_groups, loss,
                   best_validation_acc, fs, wandb_log, summary>>

\* lines 406-408: the test accuracy goes to the run summary
ReportTest ==
    /\ pc = "report"
    /\ summary' = Append(summary, Percent)
    /\ pc' = "final_save"
    /\ Log("report", params, total, Percent, FALSE)
    /\ UNCHANGED <<cfg, epoch, i, params, training, lr, param_groups, loss,
                   correct, total, consumed, best_validation_acc, fs, wandb_log>>

\* lines 412-414: the final checkpoint
FinalSave ==
    /\ pc = "final_save"
    /\ fs' = [fs EXCEPT !.ckpt = File(params)]
    /\ pc' = "done"
    /\ Log("final_save", params, 0, <<0, 1>>, TRUE)
    /\ UNCHANGED <<cfg, epoch, i, params, training, lr, param_groups, loss,
                   correct, total, consumed, best_validation_acc, wandb_log,
                   summary>>

Next ==
    \/ TrainBatch
    \/ UpdateLr
    \/ BeginValidation
    \/ ValBatch
    \/ CheckpointDecision
    \/ LogMetrics
    \/ ModelTrain
    \/ ModelEvalForTest
    \/ SaveAfterTraining
    \/ LoadBest
    \/ BeginTest
    \/ TestBatch
    \/ ReportTest
    \/ FinalSave


Spec == Init /\ [][Next]_vars

SpecGroups == InitGroups /\ [][Next]_vars

\* --------------------------------------------------------- a second run
\* The same script started a second time with the same --epoch, in the same
\* directory: its three file names are this run's. Its steps are taken an
\* epoch at a time; only what it does to the files is kept.
this_run == <<num_epochs, e_stop, batch_size, test_size, prior_files, pc, epoch,
              i, params, training, lr, param_groups, loss, correct, total,
              consumed, best_validation_acc, wandb_log, summary, trace>>

\* correct / total of a validation pass of the second run
OtherAccuracies == {<<h * batch_size, num_validation>> : h \in 0..MaxRightBatches}

\* lines 362-364, in the second run (early stopping on)
OtherIsNewBest(acc) == RatGt(acc, other.best)

\* lines 320-368, in the second run: one epoch and its checkpoint decision
OtherEpoch ==
    /\ other.pc = "loop"
    /\ other.epoch < num_epochs
    /\ \E acc \in OtherAccuracies :
          LET p == OtherParams((other.epoch + 1) * total_step) IN
          IF OtherIsNewBest(acc)
             THEN /\ fs' = [fs EXCEPT !.early = File(p)]
                  /\ other' = [other EXCEPT !.epoch = @ + 1, !.params = p,
                                            !.best = acc]
             ELSE /\ fs' = fs
                  /\ other' = [other EXCEPT !.epoch = @ + 1, !.params = p]
    /\ UNCHANGED this_run

\* lines 388-391, in the second run: post-training save, then the reload
OtherReload ==
    /\ other.pc = "loop"
    /\ other.epoch = num_epochs
    /\ fs' = [fs EXCEPT !.after = File(other.params)]
    /\ other' = IF fs.early = NoFile
                   THEN [other EXCEPT !.pc = "aborted"]
                   ELSE [other EXCEPT !.pc = "tested", !.params = fs.early[1]]
    /\ UNCHANGED this_run

\* lines 412-414, in the second run: the final checkpoint
OtherFinalSave ==
    /\ other.pc = "tested"
    /\ fs' = [fs EXCEPT !.ckpt = File(other.params)]
    /\ other' = [other EXCEPT !.pc = "done"]
    /\ UNCHANGED this_run

NextTwoRuns ==
    \/ Next
    \/ OtherEpoch
    \/ OtherReload
    \/ OtherFinalSave

\* this run at the configured batch size and on the smallest test set, in a
\* directory without earlier files, alone or beside a second run
SmallestTest == {n \in TestSizes : \A m \in TestSizes : n <= m}

InitTwoRuns ==
    InitWith({default_batch_size}, SmallestTest, {FALSE}, {1},
             {NoOtherRun, OtherRunStart})

SpecTwoRuns == InitTwoRuns /\ [][NextTwoRuns]_vars

\* ------------------------------------------------------- reading the history
Idx(op, k) == {j \in DOMAIN trace : trace[j].op = op /\ trace[j].epoch = k}
IdxAll(op) == {j \in DOMAIN trace : trace[j].op = op}
EventsOf(op) == SelectSeq(trace, LAMBDA e : e.op = op)

\* the checkpoint decisions taken so far, one per finished validation pass
Decisions == EventsOf("ckpt")
EpochAcc(k) == Decisions[k + 1].acc
EpochEndParams(k) == Decisions[k + 1].p

LoopFinished ==
    pc \in {"eval_test", "post", "reload", "test_begin", "test", "report",
            "final_save", "done", "aborted"}
TestStarted == pc \in {"test", "report", "final_save", "done"}
TestFinished == pc \in {"report", "final_save", "done"}

\* the best-checkpoint record was updated by the decision just taken
UpdatedThisEpoch ==
    /\ fs.early = File(params)
    /\ best_validation_acc = current_epoch_val_acc

\* ------------------------------------------------------------------ claims
\* C1 (as stated): with early stopping enabled, the best-checkpoint record is
\* updated at epoch k if and only if epoch k's validation accuracy is strictly
\* greater than the accuracy of every earlier epoch; in particular epoch 0
\* always updates it.
C1_UpdateIffAbovePriorEpochs ==
    (e_stop /\ pc = "log") =>
        (UpdatedThisEpoch <=>
            \A k \in 0..(epoch - 1) : RatGt(current_epoch_val_acc, EpochAcc(k)))

\* C1 (what the code does): the record is updated if and only if the accuracy
\* is strictly greater than the initial 0.0 and than every earlier epoch's.
C1_UpdateIffAboveInitialAndPrior ==
    (e_stop /\ pc = "log") =>
        (UpdatedThisEpoch <=>
            /\ RatGt(current_epoch_val_acc, initial_best_validation_acc)
            /\ \A k \in 0..(epoch - 1) : RatGt(current_epoch_val_acc, EpochAcc(k)))

\* C2 (as stated): with early stopping enabled and at least one epoch, the
\* parameters in memory when the test pass starts are those this run held at
\* the end of the earliest epoch whose validation accuracy is the maximum.
IsBestEpoch(k) ==
    /\ \A m \in 0..(num_epochs - 1) : ~RatGt(EpochAcc(m), EpochAcc(k))
    /\ \A m \in 0..(k - 1) : RatGt(EpochAcc(k), EpochAcc(m))

C2_TestRunsOnBestEpochParams ==
    (e_stop /\ num_epochs >= 1 /\ pc = "test_begin") =>
        \E k \in 0..(num_epochs - 1) : IsBestEpoch(k) /\ params = EpochEndParams(k)

\* C3: with early stopping disabled the best-checkpoint file is never written,
\* the best-so-far accuracy keeps its initial value, nothing is loaded before
\* the test pass, and the test pass runs on the last epoch's parameters.
C3_DisabledLeavesCheckpointAlone ==
    ~e_stop =>
        /\ fs.early = InitialFile
        /\ best_validation_acc = initial_best_validation_acc
        /\ \A j \in DOMAIN trace :
              /\ trace[j].op \notin {"load", "load_failed", "save_after"}
              /\ trace[j].op = "ckpt" => ~trace[j].flag
        /\ (pc = "test_begin" \/ TestStarted) =>
              params = OwnParams(num_epochs * total_step)

C3_Witness ==
    /\ ~e_stop
    /\ pc = "test"
    /\ num_epochs >= 2
    /\ RatGt(EpochAcc(1), EpochAcc(0))
    /\ RatGt(EpochAcc(0), initial_best_validation_acc)

EpochSeq(op) == LET es == EventsOf(op) IN [j \in 1..Len(es) |-> es[j].epoch]
UpTo(n) == [k \in 1..n |-> k - 1]
ValBatches == (num_validation + batch_size - 1) \div batch_size

C5_OneValidationAndDecayPerEpoch ==
    LoopFinished =>
        /\ EpochSeq("decay") = UpTo(num_epochs)
        /\ EpochSeq("eval") = UpTo(num_epochs)
        /\ EpochSeq("ckpt") = UpTo(num_epochs)
        /\ \A k \in 0..(num_epochs - 1) :
              LET after == Idx("decay", k) \cup Idx("eval", k) \cup Idx("val", k)
                  train == Idx("train", k)
                  next == Idx("train", k + 1)
              IN  /\ Cardinality(train) = total_step
                  /\ Cardinality(Idx("val", k)) = ValBatches
                  /\ \A t \in train : \A d \in after : t < d
                  /\ \A t \in next : \A d \in after : d < t

C5_Witness ==
    /\ pc = "done"
    /\ num_epochs >= 2
    /\ Len(EventsOf("decay")) = num_epochs

\* C6 (as stated): no run aborts between the epoch loop and the test pass, and
\* whenever the reload is taken a best-checkpoint snapshot written by this run
\* exists to be read back.
C6_ReloadFindsOwnSnapshot ==
    /\ pc # "aborted"
    /\ pc = "reload" => (fs.early # NoFile /\ fs.early[1].by = "self")

\* C6 (what the code does): a run aborts exactly when early stopping is on, no
\* epoch's accuracy exceeded 0.0 and no earlier run left the file behind.
C6_AbortsOnlyWithoutAnyCheckpoint ==
    pc = "aborted" =>
        /\ e_stop
        /\ ~prior_files
        /\ \A k \in 0..(num_epochs - 1) : EpochAcc(k)[1] = 0

\* C7 (as stated): after the epoch loop and before any reload, every run saves
\* the last epoch's parameters to the post-training file, whether or not early
\* stopping is enabled.
PastPostTraining ==
    pc \in {"reload", "aborted", "test_begin"} \/ TestStarted

C7_PostTrainingSnapshotAlways ==
    PastPostTraining => fs.after = File(OwnParams(num_epochs * total_step))

\* C7 (amended): with early stopping enabled the last epoch's parameters are
\* saved to the post-training file before the reload; with it disabled that
\* file is not written; a run that completes writes model.ckpt at its end.
C7_PostTrainingSnapshotWhenEnabled ==
    /\ (e_stop /\ PastPostTraining) =>
          /\ fs.after = File(OwnParams(num_epochs * total_step))
          /\ Cardinality(IdxAll("save_after")) = 1
          /\ \A l \in IdxAll("load") \cup IdxAll("load_failed") :
                \A w \in IdxAll("save_after") : w < l
    /\ ~e_stop => fs.after = InitialFile
    /\ fs.ckpt = IF pc = "done" THEN File(params) ELSE InitialFile

C7_Witness ==
    /\ e_stop
    /\ pc = "done"
    /\ num_epochs >= 2
    /\ fs.after # fs.ckpt
    /\ fs.ckpt[1].by = "self"

\* C8: exactly one metric record per epoch, in epoch order and after that
\* epoch's checkpoint decision, carrying the epoch, the loss of the epoch's
\* last training batch and the accuracy of that epoch's validation pass alone
\* (as a percentage); exactly one summary value, after the test pass.
EpochsLogged ==
    IF LoopFinished THEN num_epochs
    ELSE IF pc = "train_mode" THEN epoch + 1 ELSE epoch

DecaysDone == Cardinality(IdxAll("decay"))
DecaysExpected ==
    IF LoopFinished THEN num_epochs
    ELSE IF pc \in {"train", "decay"} THEN epoch ELSE epoch + 1
RateAfter(n) == RatMul(learning_rate, RatPow(learning_rate_decay, n))

C9_UniformDecayPerEpoch ==
    /\ DecaysDone = DecaysExpected
    /\ \A g \in DOMAIN param_groups : param_groups[g] = RateAfter(DecaysDone)
    /\ pc = "train" =>
          \A g \in DOMAIN param_groups : param_groups[g] = RateAfter(epoch)

C9_Witness ==
    /\ pc = "train"
    /\ epoch >= 1
    /\ Len(param_groups) >= 2
    /\ param_groups[2] # learning_rate

\* C10: within an epoch the steps are: all training batches, decay,
\* validation pass, checkpoint decision, metric record, back to training
\* mode; every optimizer step is taken in training mode, every validation and
\* test batch in evaluation mode.
LoopOps == {"train", "decay", "eval", "val", "ckpt", "log", "train_mode"}
Rep(x, n) == [j \in 1..n |-> x]
EpochOps ==
    Rep("train", total_step) \o <<"decay", "eval">> \o Rep("val", ValBatches)
        \o <<"ckpt", "log", "train_mode">>
OpsOfEpoch(k) ==
    LET es == SelectSeq(trace, LAMBDA e : e.epoch = k /\ e.op \in LoopOps)
    IN  [j \in 1..Len(es) |-> es[j].op]
IsPrefix(a, b) == Len(a) <= Len(b) /\ a = SubSeq(b, 1, Len(a))

C10_StepOrderAndModes ==
    /\ \A k \in 0..(num_epochs - 1) :
          LET ops == OpsOfEpoch(k) IN
          /\ IsPrefix(ops, EpochOps)
          /\ (k < epoch) => ops = EpochOps
    /\ \A j \in 1..(Len(trace) - 1) :
          /\ trace[j].epoch <= trace[j + 1].epoch
          /\ trace[j].op \notin LoopOps => trace[j + 1].op \notin LoopOps
    /\ \A j \in DOMAIN trace :
          /\ trace[j].op = "train" => trace[j].mode
          /\ trace[j].op \in {"val", "test"} => ~trace[j].mode
          /\ trace[j].op \in LoopOps => trace[j].epoch < num_epochs
    /\ pc = "train" => training
    /\ pc \in {"val", "test"} => ~training

C10_Witness ==
    /\ pc = "test"
    /\ consumed > 0
    /\ num_epochs >= 2

\* C11: the early-stopping file is named by the epoch count alone, so a second
\* run with the same epoch count writes the same file. The reload before
\* testing yields this run's own best-epoch snapshot when it runs alone or was
\* the last to write; otherwise it yields a checkpoint the second run wrote.
\* The state in which that happens is reachable (C11_Witness).
OwnWrote == \E j \in IdxAll("ckpt") : trace[j].flag
IsOwnBest(p) == \E k \in 0..(num_epochs - 1) : IsBestEpoch(k) /\ p = EpochEndParams(k)
IsOtherCheckpoint(p) ==
    /\ p.by = "other"
    /\ other.pc # "absent"
    /\ \E k \in 1..other.epoch : p.steps = k * total_step

C11_ReloadIsOwnBestUnlessOverwritten ==
    (e_stop /\ pc = "test_begin" /\ OwnWrote) =>
        /\ other.pc = "absent" => IsOwnBest(params)
        /\ params.by = "self" => IsOwnBest(params)
        /\ params.by # "self" => IsOtherCheckpoint(params)

C11_Witness ==
    /\ e_stop
    /\ pc = "test_begin"
    /\ OwnWrote
    /\ params.by = "other"
    /\ ~IsOwnBest(params)
====
